---------------------------- MODULE Spec2Model ----------------------------
(***************************************************************************)
(* Model of the Scronch plug-in (src/scronch.py): ScronchPlugin.run        *)
(* duplicates the active image, flattens the duplicate, derives a          *)
(* timestamped output path, selects an export procedure from the host's    *)
(* procedure database, configures and runs it, and deletes the duplicate.  *)
(*                                                                         *)
(* Strings are sequences of one-character strings so that the path and     *)
(* text functions of the code (os.path.*, str.replace, the "in" substring  *)
(* test, strftime) are computed character by character.  os.path is        *)
(* posixpath.                                                              *)
(*                                                                         *)
(* Failure model: every call into the host object model made by the try    *)
(* body (duplicate, merge_visible_layers, get_file/get_path,               *)
(* lookup_procedure, create_config/new_for_path, set_property, run, index, *)
(* delete) either completes or raises an exception derived from Exception. *)
(* The notification calls (Gimp.message, the logger) and                   *)
(* procedure.new_return_values complete.                                   *)
(***************************************************************************)
EXTENDS Integers, Sequences, FiniteSets, TLC

\* Number of invocations of run by the host in one behaviour.
MaxInvocations == 2

-----------------------------------------------------------------------------
(* Text and path functions used by run *)

\* str.rfind(c) + 1: the 1-based index of the last c in s, 0 when absent.
RFind(s, c) ==
    LET hits == {i \in 1..Len(s) : s[i] = c}
    IN  IF hits = {} THEN 0 ELSE CHOOSE i \in hits : \A j \in hits : j <= i

\* s.rstrip(c)
RECURSIVE RStrip(_, _)
RStrip(s, c) ==
    IF s # <<>> /\ s[Len(s)] = c THEN RStrip(SubSeq(s, 1, Len(s) - 1), c) ELSE s

\* s.startswith(prefix)
StartsWith(s, prefix) ==
    Len(s) >= Len(prefix) /\ SubSeq(s, 1, Len(prefix)) = prefix

\* s.endswith(suffix)
EndsWith(s, suffix) ==
    Len(s) >= Len(suffix) /\ SubSeq(s, Len(s) - Len(suffix) + 1, Len(s)) = suffix

\* sub in s
Contains(s, sub) ==
    \E i \in 1..(Len(s) - Len(sub) + 1) : SubSeq(s, i, i + Len(sub) - 1) = sub

\* s.replace(old, new): every non-overlapping occurrence, left to right.
RECURSIVE Replace(_, _, _)
Replace(s, old, new) ==
    IF Len(s) < Len(old) THEN s
    ELSE IF StartsWith(s, old)
         THEN new \o Replace(SubSeq(s, Len(old) + 1, Len(s)), old, new)
         ELSE <<s[1]>> \o Replace(Tail(s), old, new)

\* posixpath.dirname
Dirname(p) ==
    LET head == SubSeq(p, 1, RFind(p, "/"))
    IN  IF head # <<>> /\ (\E i \in 1..Len(head) : head[i] # "/")
        THEN RStrip(head, "/") ELSE head

\* posixpath.basename
Basename(p) == SubSeq(p, RFind(p, "/") + 1, Len(p))

\* posixpath.splitext (genericpath._splitext): <<root, ext>>; leading dots
\* of the last component are not an extension separator.
Splitext(p) ==
    LET sepIndex == RFind(p, "/")
        dotIndex == RFind(p, ".")
    IN  IF dotIndex > sepIndex
           /\ \E k \in (sepIndex + 1)..(dotIndex - 1) : p[k] # "."
        THEN <<SubSeq(p, 1, dotIndex - 1), SubSeq(p, dotIndex, Len(p))>>
        ELSE <<p, <<>>>>

\* posixpath.join(a, b)
Join(a, b) ==
    IF StartsWith(b, <<"/">>) THEN b
    ELSE IF a = <<>> \/ EndsWith(a, <<"/">>) THEN a \o b
    ELSE a \o <<"/">> \o b

\* posixpath.isabs
IsAbs(p) == StartsWith(p, <<"/">>)

\* s.split("/")
RECURSIVE Split(_)
Split(s) ==
    LET hits == {i \in 1..Len(s) : s[i] = "/"}
    IN  IF hits = {} THEN <<s>>
        ELSE LET i == CHOOSE k \in hits : \A j \in hits : k <= j
             IN  <<SubSeq(s, 1, i - 1)>> \o Split(SubSeq(s, i + 1, Len(s)))

\* The component loop of posixpath.normpath.
RECURSIVE NormComps(_, _, _)
NormComps(comps, new_comps, initial_slashes) ==
    IF comps = <<>> THEN new_comps
    ELSE LET comp == Head(comps)
             DotDot == <<".", ".">>
         IN  IF comp = <<>> \/ comp = <<".">>
             THEN NormComps(Tail(comps), new_comps, initial_slashes)
             ELSE IF comp # DotDot
                     \/ (initial_slashes = 0 /\ new_comps = <<>>)
                     \/ (new_comps # <<>> /\ new_comps[Len(new_comps)] = DotDot)
             THEN NormComps(Tail(comps), Append(new_comps, comp), initial_slashes)
             ELSE IF new_comps # <<>>
             THEN NormComps(Tail(comps), SubSeq(new_comps, 1, Len(new_comps) - 1),
                            initial_slashes)
             ELSE NormComps(Tail(comps), new_comps, initial_slashes)

\* "/".join(comps)
RECURSIVE JoinComps(_)
JoinComps(comps) ==
    IF comps = <<>> THEN <<>>
    ELSE IF Len(comps) = 1 THEN comps[1]
    ELSE comps[1] \o <<"/">> \o JoinComps(Tail(comps))

\* posixpath.normpath
Normpath(path) ==
    IF path = <<>> THEN <<".">>
    ELSE LET initial_slashes ==
                 IF ~StartsWith(path, <<"/">>) THEN 0
                 ELSE IF StartsWith(path, <<"/", "/">>)
                         /\ ~StartsWith(path, <<"/", "/", "/">>) THEN 2
                 ELSE 1
             body == JoinComps(NormComps(Split(path), <<>>, initial_slashes))
             full == [i \in 1..initial_slashes |-> "/"] \o body
         IN  IF full = <<>> THEN <<".">> ELSE full

\* posixpath.abspath relative to the process's working directory.
Abspath(path, workdir) ==
    Normpath(IF IsAbs(path) THEN path ELSE Join(workdir, path))

\* Decimal digits of n, zero-padded to width w (strftime's %Y %m %d %H %M %S).
RECURSIVE Pad(_, _)
Pad(n, w) ==
    LET Digits == <<"0", "1", "2", "3", "4", "5", "6", "7", "8", "9">>
    IN  IF w = 0 THEN <<>> ELSE Pad(n \div 10, w - 1) \o <<Digits[(n % 10) + 1]>>

\* datetime.strftime(TIMESTAMP_FORMAT) with TIMESTAMP_FORMAT = "%Y%m%d%H%M%S"
Strftime(t) ==
    Pad(t.year, 4) \o Pad(t.month, 2) \o Pad(t.day, 2)
        \o Pad(t.hour, 2) \o Pad(t.minute, 2) \o Pad(t.second, 2)

-----------------------------------------------------------------------------
(* Export settings and host names *)

AVIF_QUALITY == 85
AVIF_LOSSLESS == TRUE
AVIF_BIT_DEPTH == 10
AVIF_PIXEL_FORMAT == "yuv444"
AVIF_ENCODER_SPEED == "balanced"
AVIF_INCLUDE_EXIF == TRUE
AVIF_INCLUDE_XMP == TRUE
PNG_COMPRESSION == 9
PNG_INTERLACED == FALSE
PNG_SAVE_TRANSPARENT == TRUE
PNG_OPTIMIZE_PALETTE == FALSE
PNG_FORMAT == "auto"

\* "file-heif-av1-export"
AvifProcName ==
    <<"f", "i", "l", "e", "-", "h", "e", "i", "f", "-", "a", "v", "1", "-",
      "e", "x", "p", "o", "r", "t">>

\* "file-png-export"
PngProcName ==
    <<"f", "i", "l", "e", "-", "p", "n", "g", "-", "e", "x", "p", "o", "r", "t">>

\* Gimp.PDBStatusType values an export procedure can return.
PDBStatusType == {"SUCCESS", "EXECUTION_ERROR", "CALLING_ERROR", "CANCEL"}

\* The value of a variable that holds None.
None == <<>>

-----------------------------------------------------------------------------
(* Inputs of the model *)

\* Image handles of the host: the n-th image it created.
Image(n) == <<"image", n>>

\* The image the host passes to run.
SourceImage == Image(1)

\* Directories of source files.
SourceDirs == { <<"/">>, <<"/", "d">>, <<"/", "d", ".", "a", "v", "i", "f">> }

\* Source file names as <<base name, last extension>>.
SourceNames ==
    { << <<"p">>, <<".", "x", "c", "f">> >>,
      << <<"p", ".", "a", "v", "i", "f">>, <<".", "x", "c", "f">> >>,
      << <<"p">>, <<".", "a", "v", "i", "f">> >>,
      << <<".", "a", "v", "i", "f">>, <<>> >>,
      << <<"p">>, <<>> >> }

\* A file name placed in a directory.
InDir(dir, name) == IF dir = <<"/">> THEN dir \o name ELSE dir \o <<"/">> \o name

\* What image.get_file() and file_obj.get_path() give: no file object, a file
\* object without a local path, or a file object with an absolute local
\* path.  dir and base record how the path was put together.
SourceFiles ==
    { [hasFile |-> FALSE, path |-> None, dir |-> None, base |-> None],
      [hasFile |-> TRUE, path |-> None, dir |-> None, base |-> None] }
    \cup { [hasFile |-> TRUE, path |-> InDir(d, n[1] \o n[2]), dir |-> d, base |-> n[1]]
           : d \in SourceDirs, n \in SourceNames }

\* Working directories of the plug-in process (os.getcwd()).
WorkDirs == { <<"/", "w">>, <<"/", "w", ".", "a", "v", "i", "f">> }

\* Readings of datetime.datetime.now().
Clocks ==
    { [year |-> 2025, month |-> 3, day |-> 1, hour |-> 12, minute |-> 0, second |-> 0],
      [year |-> 2026, month |-> 11, day |-> 4, hour |-> 9, minute |-> 5, second |-> 7] }

-----------------------------------------------------------------------------
(* State *)

VARIABLES
    PREFER_AVIF,      \* the module-level setting
    pdb,              \* names registered in the host's procedure database
    cwd,              \* working directory of the process
    images,           \* images alive in the host
    flattened,        \* images whose visible layers were merged
    deleted,          \* images deleted through Image.delete()
    nextId,           \* next image id the host hands out
    invocations,      \* number of invocations of run so far
    pc,               \* position in run
    image,            \* run's image argument
    srcFile,          \* the file of the image argument
    now,              \* clock reading of this invocation
    dup_img, output_filename, export_proc, config, gfile, result,
    exc,              \* class of the exception raised, "None" when none was
    ret,              \* status run returned to the host, "None" before it returns
    messages,         \* Gimp.message notifications of this invocation
    calls,            \* host calls of this invocation: [op, img]
    runs              \* export procedure runs of this invocation

settings == <<PREFER_AVIF, pdb, cwd>>
host == <<images, flattened, deleted, nextId>>
input == <<invocations, image, srcFile, now>>
locals == <<dup_img, output_filename, export_proc, config, gfile, result>>
observed == <<messages, calls, runs>>
vars == <<settings, host, input, locals, observed, pc, exc, ret>>

-----------------------------------------------------------------------------
(* The computations of run *)

\* Lines 89-112: the output path before the export procedure is chosen.
OutputFilename(file, workdir, t, prefer) ==
    LET original_filepath == IF file.hasFile THEN file.path ELSE None
        known == file.hasFile /\ original_filepath # None
        base_dir == IF known THEN Dirname(original_filepath) ELSE workdir
        base_filename ==
            IF known THEN Splitext(Basename(original_filepath))[1]
            ELSE <<"u", "n", "t", "i", "t", "l", "e", "d">>
        stamp == Strftime(t)
        name == base_filename \o <<"-">> \o stamp
                    \o (IF prefer THEN <<".", "a", "v", "i", "f">>
                                  ELSE <<".", "p", "n", "g">>)
        joined == Join(base_dir, name)
    IN  IF ~IsAbs(joined) THEN Abspath(joined, workdir) ELSE joined

\* pdb.lookup_procedure(name): the procedure (known by its name) or None.
LookupProcedure(registry, name) == IF name \in registry THEN name ELSE None

\* SelectExport with the fallback's change of extension left out.
SelectExportKeepName(registry, prefer, filename) ==
    IF prefer /\ LookupProcedure(registry, AvifProcName) # None
    THEN [proc |-> LookupProcedure(registry, AvifProcName), file |-> filename]
    ELSE [proc |-> LookupProcedure(registry, PngProcName), file |-> filename]

\* Lines 118-125: the export procedure and the output path that goes with it.
SelectExport(registry, prefer, filename) ==
    IF prefer
    THEN IF LookupProcedure(registry, AvifProcName) # None
         THEN [proc |-> LookupProcedure(registry, AvifProcName), file |-> filename]
         ELSE [proc |-> LookupProcedure(registry, PngProcName),
               file |-> Replace(filename, <<".", "a", "v", "i", "f">>,
                                <<".", "p", "n", "g">>)]
    ELSE [proc |-> LookupProcedure(registry, PngProcName), file |-> filename]

\* Lines 143-155: the properties set for the AVIF export procedure.
AvifConfig(img, file) ==
    ("run-mode" :> "NONINTERACTIVE") @@ ("image" :> img) @@ ("file" :> file)
    @@ ("options" :> None) @@ ("quality" :> AVIF_QUALITY)
    @@ ("lossless" :> AVIF_LOSSLESS) @@ ("save-bit-depth" :> AVIF_BIT_DEPTH)
    @@ ("pixel-format" :> AVIF_PIXEL_FORMAT)
    @@ ("encoder-speed" :> AVIF_ENCODER_SPEED)
    @@ ("include-exif" :> AVIF_INCLUDE_EXIF) @@ ("include-xmp" :> AVIF_INCLUDE_XMP)

\* Lines 164-176: the properties set for the PNG export procedure.
PngConfig(img, file) ==
    ("run-mode" :> "NONINTERACTIVE") @@ ("image" :> img) @@ ("file" :> file)
    @@ ("options" :> None) @@ ("interlaced" :> PNG_INTERLACED)
    @@ ("compression" :> PNG_COMPRESSION) @@ ("bkgd" :> TRUE) @@ ("offs" :> FALSE)
    @@ ("phys" :> TRUE) @@ ("time" :> TRUE)
    @@ ("save-transparent" :> PNG_SAVE_TRANSPARENT)
    @@ ("optimize-palette" :> PNG_OPTIMIZE_PALETTE) @@ ("format" :> PNG_FORMAT)

\* Lines 139-176: the parameter set chosen by the procedure's name.
ConfigFor(proc, img, file) ==
    IF Contains(proc, <<"h", "e", "i", "f", "-", "a", "v", "1">>)
    THEN AvifConfig(img, file) ELSE PngConfig(img, file)

\* Catches for a clause written "except RuntimeError".
CatchesRuntimeErrorOnly(e) == e = "RuntimeError"

\* Line 204: "except Exception" catches every class derived from Exception.
Catches(e) == e \in {"RuntimeError", "GLib.Error"}

-----------------------------------------------------------------------------
(* Initial state and the steps of run *)

Init ==
    /\ PREFER_AVIF \in BOOLEAN
    /\ pdb \in SUBSET {AvifProcName, PngProcName}
    /\ cwd \in WorkDirs
    /\ images = {SourceImage}
    /\ flattened = {}
    /\ deleted = {}
    /\ nextId = 2
    /\ invocations = 0
    /\ pc = "idle"
    /\ image = SourceImage
    /\ srcFile = None
    /\ now = None
    /\ dup_img = None
    /\ output_filename = None
    /\ export_proc = None
    /\ config = None
    /\ gfile = None
    /\ result = None
    /\ exc = "None"
    /\ ret = "None"
    /\ messages = <<>>
    /\ calls = <<>>
    /\ runs = <<>>

\* A statement of the try body raises e: control goes to the except clause.
Raise(e) ==
    /\ pc' = "except"
    /\ exc' = e

\* The host calls run(procedure, run_mode, image, ...) for a user action.
Invoke ==
    /\ pc \in {"idle", "returned", "escaped"}
    /\ invocations < MaxInvocations
    /\ invocations' = invocations + 1
    /\ image' = SourceImage
    /\ srcFile' \in SourceFiles
    /\ now' \in Clocks
    /\ dup_img' = None
    /\ output_filename' = None
    /\ export_proc' = None
    /\ config' = None
    /\ gfile' = None
    /\ result' = None
    /\ exc' = "None"
    /\ ret' = "None"
    /\ messages' = <<>>
    /\ calls' = <<>>
    /\ runs' = <<>>
    /\ pc' = "duplicate"
    /\ UNCHANGED <<settings, host>>

\* Line 81: dup_img = image.duplicate()
Duplicate ==
    /\ pc = "duplicate"
    /\ \/ /\ dup_img' = Image(nextId)
          /\ images' = images \cup {Image(nextId)}
          /\ nextId' = nextId + 1
          /\ calls' = Append(calls, [op |-> "duplicate", img |-> image])
          /\ pc' = "flatten"
          /\ UNCHANGED <<exc, flattened, deleted>>
       \/ /\ Raise("GLib.Error")
          /\ UNCHANGED <<dup_img, host, calls>>
    /\ UNCHANGED <<settings, input, output_filename, export_proc, config, gfile,
                   result, ret, messages, runs>>

\* Flatten with merge_visible_layers called on the image argument.
FlattenSource ==
    /\ pc = "flatten"
    /\ \/ /\ flattened' = flattened \cup {image}
          /\ calls' = Append(calls, [op |-> "flatten", img |-> image])
          /\ pc' = "path"
          /\ UNCHANGED exc
       \/ /\ Raise("GLib.Error")
          /\ UNCHANGED <<flattened, calls>>
    /\ UNCHANGED <<settings, images, deleted, nextId, input, locals, ret,
                   messages, runs>>

\* Line 85: dup_img.merge_visible_layers(Gimp.MergeType.CLIP_TO_IMAGE)
Flatten ==
    /\ pc = "flatten"
    /\ \/ /\ flattened' = flattened \cup {dup_img}
          /\ calls' = Append(calls, [op |-> "flatten", img |-> dup_img])
          /\ pc' = "path"
          /\ UNCHANGED exc
       \/ /\ Raise("GLib.Error")
          /\ UNCHANGED <<flattened, calls>>
    /\ UNCHANGED <<settings, images, deleted, nextId, input, locals, ret,
                   messages, runs>>

\* Lines 89-112: read the image's file and build the output path.
BuildPath ==
    /\ pc = "path"
    /\ \/ /\ output_filename' = OutputFilename(srcFile, cwd, now, PREFER_AVIF)
          /\ calls' = Append(calls, [op |-> "get_file", img |-> image])
          /\ pc' = "lookup"
          /\ UNCHANGED exc
       \/ /\ Raise("GLib.Error")
          /\ UNCHANGED <<output_filename, calls>>
    /\ UNCHANGED <<settings, host, input, dup_img, export_proc, config, gfile,
                   result, ret, messages, runs>>

\* Lines 115-128: look the export procedure up; none found is a RuntimeError.
Lookup ==
    /\ pc = "lookup"
    /\ LET sel == SelectExport(pdb, PREFER_AVIF, output_filename)
       IN  \/ /\ sel.proc # None
              /\ export_proc' = sel.proc
              /\ output_filename' = sel.file
              /\ pc' = "config"
              /\ UNCHANGED exc
           \/ /\ sel.proc = None
              /\ Raise("RuntimeError")
              /\ output_filename' = sel.file
              /\ UNCHANGED export_proc
           \/ /\ Raise("GLib.Error")
              /\ UNCHANGED <<export_proc, output_filename>>
    /\ UNCHANGED <<settings, host, input, dup_img, config, gfile, result, ret,
                   observed>>

\* Lines 131-135: config = export_proc.create_config();
\* gfile = Gio.File.new_for_path(output_filename)
CreateConfig ==
    /\ pc = "config"
    /\ \/ /\ config' = [proc |-> export_proc, props |-> None]
          /\ gfile' = [path |-> output_filename]
          /\ pc' = "properties"
          /\ UNCHANGED exc
       \/ /\ Raise("GLib.Error")
          /\ UNCHANGED <<config, gfile>>
    /\ UNCHANGED <<settings, host, input, dup_img, output_filename, export_proc,
                   result, ret, observed>>

\* Lines 139-179: the config.set_property calls.
SetProperties ==
    /\ pc = "properties"
    /\ \/ /\ config' = [config EXCEPT !.props = ConfigFor(export_proc, dup_img, gfile)]
          /\ pc' = "export"
          /\ UNCHANGED exc
       \/ /\ Raise("GLib.Error")
          /\ UNCHANGED config
    /\ UNCHANGED <<settings, host, input, dup_img, output_filename, export_proc,
                   gfile, result, ret, observed>>

\* Lines 185-186: Gimp.message(...); result = export_proc.run(config)
RunBackend ==
    /\ pc = "export"
    /\ \/ \E status \in PDBStatusType :
              /\ result' = <<status>>
              /\ runs' = Append(runs, [proc |-> export_proc, config |-> config.props,
                                       status |-> status])
              /\ pc' = "status"
              /\ UNCHANGED exc
       \/ /\ Raise("GLib.Error")
          /\ runs' = Append(runs, [proc |-> export_proc, config |-> config.props,
                                   status |-> "raised"])
          /\ UNCHANGED result
    /\ messages' = Append(messages, "running")
    /\ calls' = Append(calls, [op |-> "run", img |-> config.props["image"]])
    /\ UNCHANGED <<settings, host, input, dup_img, output_filename, export_proc,
                   config, gfile, ret>>

\* CheckStatus without the comparison of the status with SUCCESS.
CheckStatusUnchecked ==
    /\ pc = "status"
    /\ \/ /\ messages' = Append(messages, "exported")
          /\ pc' = "delete"
          /\ UNCHANGED exc
       \/ /\ Raise("GLib.Error")
          /\ UNCHANGED messages
    /\ UNCHANGED <<settings, host, input, locals, ret, calls, runs>>

\* CheckStatus that runs the export procedure again after a failed export.
CheckStatusRetry ==
    /\ pc = "status"
    /\ \/ /\ result[1] = "SUCCESS"
          /\ messages' = Append(messages, "exported")
          /\ pc' = "delete"
          /\ UNCHANGED exc
       \/ /\ result[1] # "SUCCESS"
          /\ IF Len(runs) < 2
             THEN pc' = "export" /\ UNCHANGED exc
             ELSE Raise("RuntimeError")
          /\ UNCHANGED messages
       \/ /\ Raise("GLib.Error")
          /\ UNCHANGED messages
    /\ UNCHANGED <<settings, host, input, locals, ret, calls, runs>>

\* Lines 191-196: status = result.index(0); a status other than SUCCESS is a
\* RuntimeError; otherwise the export is announced.
CheckStatus ==
    /\ pc = "status"
    /\ \/ /\ result[1] = "SUCCESS"
          /\ messages' = Append(messages, "exported")
          /\ pc' = "delete"
          /\ UNCHANGED exc
       \/ /\ result[1] # "SUCCESS"
          /\ Raise("RuntimeError")
          /\ UNCHANGED messages
       \/ /\ Raise("GLib.Error")
          /\ UNCHANGED messages
    /\ UNCHANGED <<settings, host, input, locals, ret, calls, runs>>

\* Lines 199-202: dup_img.delete(); return SUCCESS
DeleteAndReturn ==
    /\ pc = "delete"
    /\ \/ /\ images' = images \ {dup_img}
          /\ deleted' = deleted \cup {dup_img}
          /\ calls' = Append(calls, [op |-> "delete", img |-> dup_img])
          /\ ret' = "SUCCESS"
          /\ pc' = "returned"
          /\ UNCHANGED exc
       \/ /\ Raise("GLib.Error")
          /\ UNCHANGED <<images, deleted, calls, ret>>
    /\ UNCHANGED <<settings, flattened, nextId, input, locals, messages, runs>>

\* Except without the Gimp.message notification.
ExceptSilent ==
    /\ pc = "except"
    /\ IF Catches(exc)
       THEN /\ ret' = "EXECUTION_ERROR"
            /\ pc' = "returned"
       ELSE /\ pc' = "escaped"
            /\ UNCHANGED ret
    /\ UNCHANGED <<settings, host, input, locals, exc, messages, calls, runs>>

\* Lines 204-208: the except clause reports the error and returns
\* EXECUTION_ERROR; an exception it does not catch leaves run.
Except ==
    /\ pc = "except"
    /\ IF Catches(exc)
       THEN /\ messages' = Append(messages, "error")
            /\ ret' = "EXECUTION_ERROR"
            /\ pc' = "returned"
       ELSE /\ pc' = "escaped"
            /\ UNCHANGED <<messages, ret>>
    /\ UNCHANGED <<settings, host, input, locals, exc, calls, runs>>

Next ==
    \/ Invoke
    \/ Duplicate
    \/ Flatten
    \/ BuildPath
    \/ Lookup
    \/ CreateConfig
    \/ SetProperties
    \/ RunBackend
    \/ CheckStatus
    \/ DeleteAndReturn
    \/ Except

Spec == Init /\ [][Next]_vars

-----------------------------------------------------------------------------
(* Properties *)

\* run has ended: it returned a status, or an exception left it.
Ended == pc \in {"returned", "escaped"}

\* The working copy was created in this invocation.
DupCreated == dup_img # None

\* The source image has a file with a local path.
KnownPath == srcFile.hasFile /\ srcFile.path # None

\* The export procedure was run and returned the status st.
BackendReturned(st) == \E i \in 1..Len(runs) : runs[i].status = st

\* The extension that belongs to an export procedure.
ExtOf(proc) ==
    IF proc = AvifProcName THEN <<".", "a", "v", "i", "f">> ELSE <<".", "p", "n", "g">>

\* The file name '{base}-{timestamp}.{ext}' for this invocation.
StampedName(base, proc) == base \o <<"-">> \o Strftime(now) \o ExtOf(proc)

\* The path the i-th run of an export procedure was given.
PathGiven(i) == runs[i].config["file"].path

\* Position of a host call in the duplicate, flatten, export, delete order.
Rank(op) ==
    CASE op = "duplicate" -> 1
      [] op = "flatten" -> 2
      [] op = "get_file" -> 3
      [] op = "run" -> 4
      [] op = "delete" -> 5

\* Names of the properties of the PNG parameter set.
PngPropertyNames ==
    {"run-mode", "image", "file", "options", "interlaced", "compression", "bkgd",
     "offs", "phys", "time", "save-transparent", "optimize-palette", "format"}

\* C1: whenever run has returned and the working copy was created, the
\* working copy has been deleted, whatever the outcome.
C1_WorkingCopyAlwaysDeleted ==
    (Ended /\ DupCreated) => (dup_img \in deleted /\ dup_img \notin images)

\* C2: when neither export procedure is registered and the lookup finds
\* nothing, run returns EXECUTION_ERROR, no export procedure was run, and the
\* working copy is not left undeleted.
C2_NoBackendFailsClean ==
    (Ended /\ pdb = {} /\ exc = "RuntimeError")
        => /\ ret = "EXECUTION_ERROR"
           /\ runs = <<>>
           /\ dup_img \notin images

\* C3 as stated: when the export procedure returned SUCCESS, run returns
\* SUCCESS with the working copy deleted, and run returns SUCCESS only then.
C3_BackendSuccessMeansSuccess ==
    Ended => /\ BackendReturned("SUCCESS") <=> ret = "SUCCESS"
             /\ ret = "SUCCESS" => dup_img \in deleted

\* C3 (amended): run returns SUCCESS exactly when the export procedure was
\* run, returned SUCCESS, and the working copy was then deleted; a SUCCESS of
\* the export procedure followed by a failure to read the status or to
\* delete the working copy is reported as EXECUTION_ERROR.
C3_SuccessIffExportedAndDeleted ==
    Ended => /\ ret = "SUCCESS" <=>
                    (BackendReturned("SUCCESS") /\ DupCreated /\ dup_img \in deleted
                        /\ dup_img \notin images)
             /\ (BackendReturned("SUCCESS") /\ ret # "SUCCESS")
                    => (ret = "EXECUTION_ERROR" /\ exc = "GLib.Error")

C3_Witness ==
    /\ pc = "returned"
    /\ ret = "SUCCESS"
    /\ BackendReturned("SUCCESS")
    /\ dup_img \in deleted

\* C4: when the export procedure was run and returned a status other than
\* SUCCESS, run returns EXECUTION_ERROR, an error notification was emitted,
\* and no exception leaves run.
C4_BackendFailureReported ==
    /\ (\E st \in PDBStatusType \ {"SUCCESS"} : BackendReturned(st))
          => /\ pc # "escaped"
             /\ ret # "SUCCESS"
             /\ pc = "returned" => /\ ret = "EXECUTION_ERROR"
                                   /\ \E i \in 1..Len(messages) : messages[i] = "error"

C4_Witness ==
    /\ pc = "returned"
    /\ BackendReturned("CANCEL")
    /\ exc = "RuntimeError"
    /\ ret = "EXECUTION_ERROR"

\* C5: for a source image with a known file path, the path given to the
\* export procedure is the source directory joined with
\* '{base-name}-{timestamp}.{ext}', ext belonging to the procedure selected.
C5_PathFromSourceFile ==
    \A i \in 1..Len(runs) :
        KnownPath => PathGiven(i) = InDir(srcFile.dir, StampedName(srcFile.base, runs[i].proc))

\* C6: with AVIF preferred, the AVIF procedure missing and the PNG procedure
\* registered, the procedure selected and run is the PNG one, it is given the
\* PNG parameter set, and the path given to it ends in '.png', not '.avif'.
C6_FallbackIsPng ==
    (PREFER_AVIF /\ AvifProcName \notin pdb /\ PngProcName \in pdb)
        => /\ export_proc \in {None, PngProcName}
           /\ \A i \in 1..Len(runs) :
                 /\ runs[i].proc = PngProcName
                 /\ DOMAIN runs[i].config = PngPropertyNames
                 /\ runs[i].config["compression"] = PNG_COMPRESSION
                 /\ runs[i].config["interlaced"] = PNG_INTERLACED
                 /\ runs[i].config["save-transparent"] = PNG_SAVE_TRANSPARENT
                 /\ runs[i].config["optimize-palette"] = PNG_OPTIMIZE_PALETTE
                 /\ runs[i].config["format"] = PNG_FORMAT
                 /\ EndsWith(PathGiven(i), <<".", "p", "n", "g">>)
                 /\ ~EndsWith(PathGiven(i), <<".", "a", "v", "i", "f">>)

C6_Witness ==
    /\ PREFER_AVIF
    /\ pdb = {PngProcName}
    /\ Len(runs) = 1
    /\ runs[1].proc = PngProcName
    /\ ret = "SUCCESS"

\* C7: for a source image without a file, or whose file has no local path,
\* the path given to the export procedure is
\* '<cwd>/untitled-{timestamp}.{ext}'.
C7_UntitledInWorkDir ==
    \A i \in 1..Len(runs) :
        ~KnownPath =>
            PathGiven(i) = cwd \o <<"/">>
                               \o StampedName(<<"u", "n", "t", "i", "t", "l", "e", "d">>,
                                              runs[i].proc)

\* C8: no exception leaves run; when run has ended it has returned SUCCESS or
\* EXECUTION_ERROR, and a failure raised by any step of it was turned into
\* EXECUTION_ERROR.
C8_AlwaysReturnsStatus ==
    /\ pc # "escaped"
    /\ pc = "except" => exc # "None"
    /\ pc = "returned" => /\ ret \in {"SUCCESS", "EXECUTION_ERROR"}
                          /\ exc # "None" => ret = "EXECUTION_ERROR"

C8_Witness ==
    /\ pc = "returned"
    /\ exc = "GLib.Error"
    /\ ret = "EXECUTION_ERROR"
    /\ \E i \in 1..Len(messages) : messages[i] = "exported"

\* C9: within one invocation duplicate, flatten, the run of the export
\* procedure and delete happen at most once each and only in that order, and
\* the export procedure is run at most once.
C9_StepsOnceInOrder ==
    /\ \A i, j \in 1..Len(calls) : i < j => Rank(calls[i].op) < Rank(calls[j].op)
    /\ \A j \in 1..Len(calls) :
          /\ calls[j].op = "run" =>
                \E i \in 1..(j - 1) : calls[i].op = "flatten" /\ calls[i].img = calls[j].img
          /\ calls[j].op = "delete" => \E i \in 1..(j - 1) : calls[i].op = "run"
          /\ calls[j].op = "flatten" => \E i \in 1..(j - 1) : calls[i].op = "duplicate"
    /\ Len(runs) <= 1
    /\ Len(runs) = Cardinality({i \in 1..Len(calls) : calls[i].op = "run"})

C9_Witness ==
    /\ pc = "returned"
    /\ Len(calls) = 5
    /\ calls[1].op = "duplicate"
    /\ calls[2].op = "flatten"
    /\ calls[4].op = "run"
    /\ calls[5].op = "delete"

\* C10: the image passed to run is only read: it is never flattened, never
\* the 'image' property given to an export procedure, and never deleted; the
\* only calls made on it are duplicate and get_file.
C10_SourceImageUntouched ==
    /\ image \in images
    /\ image \notin flattened
    /\ image \notin deleted
    /\ \A i \in 1..Len(runs) : runs[i].config["image"] # image
    /\ \A i \in 1..Len(calls) :
          calls[i].img = image => calls[i].op \in {"duplicate", "get_file"}
    /\ DupCreated => dup_img # image

C10_Witness ==
    /\ pc = "returned"
    /\ ret = "SUCCESS"
    /\ dup_img \in flattened
    /\ dup_img \in deleted
    /\ Len(runs) = 1
    /\ runs[1].config["image"] = dup_img

=============================================================================
